---------------------------- MODULE Spec2Model ----------------------------
(***************************************************************************)
(* Queue manager and worker dispatch core of the project generator        *)
(* (scalable-queue-arcitecture.py).  The Redis store is the shared state; *)
(* API handlers (create_project -> QueueManager.submit_job) and worker    *)
(* loops (Worker.start -> get_next_job / complete_job / fail_job) are     *)
(* processes whose every Redis command is one atomic step, since the      *)
(* handlers run in several processes against one Redis server.            *)
(* The specifications at the end run the same steps for different sets    *)
(* of processes: SpecWorkers (workers racing for the jobs of one API      *)
(* handler), SpecOrder (API handlers racing, one worker, the clock),      *)
(* SpecQuota (one user's requests over a month), SpecCrash (a worker that *)
(* dies at work, with fairness), SpecCancel (cancel requests), SpecRead   *)
(* (status and statistics reads), SpecHttp (answers of the submit route), *)
(* SpecEstimate (estimates while time passes), SpecStats (statistics for  *)
(* a range of pending counts), SpecDaily (statistics across a day),       *)
(* SpecFault (a Redis error inside complete_job), SpecRace (concurrent    *)
(* submissions of one user) and SpecLive (no crash, with fairness).       *)
(***************************************************************************)
EXTENDS Integers, Sequences, FiniteSets, TLC

(* ----------------------------- bounds --------------------------------- *)
NumWorkers == 2
NumClients == 2
MaxJobs == 2
MaxTicks == 1
(* most members of the pending set the statistics are asked about        *)
MaxPending == 7

Workers == 1..NumWorkers
Clients == 1..NumClients
JobIds == 1..MaxJobs
Users == {"u1"}

(* ------------------------- QueueConfig -------------------------------- *)
MAX_CONCURRENT_JOBS == 3
MAX_QUEUE_SIZE == 1000
PRIORITY_ENTERPRISE == 0
PRIORITY_PRO == 1
PRIORITY_INDIE == 2
PRIORITY_FREE == 3
JOB_TIMEOUT_SECONDS == 3600
SHIFT == 1000000
JOB_RETENTION_SECONDS == 604800
MONTH_KEY_TTL == 2592000
(* length of the calendar month the month key is formatted from *)
MonthSeconds == 2678400
(* clock advances: one second, or a wait longer than every TTL above and  *)
(* than PRIORITY_FREE * SHIFT                                             *)
LongWait == 4000000
TickSteps == {1, LongWait}
(* a wait longer than MONTH_KEY_TTL that stays within the calendar month  *)
LateInMonth == 2600000
MonthTickSteps == {1, LateInMonth, LongWait}

Tiers == {"free", "indie", "pro", "enterprise"}

(* a priority table read upside down *)
PriorityReversed(tier) ==
    CASE tier = "enterprise" -> 3
      [] tier = "pro" -> 2
      [] tier = "indie" -> 1
      [] tier = "free" -> 0

(* QueueConfig.__dict__["PRIORITY_" + tier.upper()] *)
PriorityOf(tier) ==
    CASE tier = "enterprise" -> PRIORITY_ENTERPRISE
      [] tier = "pro" -> PRIORITY_PRO
      [] tier = "indie" -> PRIORITY_INDIE
      [] tier = "free" -> PRIORITY_FREE

(* TierLimits[tier.upper()].value["monthly_limit"]; -1 is unlimited *)
MonthlyLimit(tier) ==
    CASE tier = "enterprise" -> -1
      [] tier = "pro" -> -1
      [] tier = "indie" -> 10
      [] tier = "free" -> 1

(* datetime.now().strftime('%Y-%m') *)
MonthOf(t) == t \div MonthSeconds

(* ----------------------- ProjectJob and its codec --------------------- *)
(* Python None in an object field, and what str(None) stores in the hash  *)
PyNone == "<None>"
StrNone == "None"
(* an unset datetime in the object, and the "" the hash stores for it     *)
NoTime == -1
EmptyStr == -2

NoHash == [exists |-> FALSE]
NotScored == [priority |-> -1, at |-> -1]
NoObj == [job_id |-> 0]
NoRes == [code |-> 0]

NewJob(id, user, tier, now) ==
    [job_id |-> id, user_id |-> user, tier |-> tier, status |-> "queued",
     priority |-> PriorityOf(tier), created_at |-> now,
     started_at |-> NoTime, completed_at |-> NoTime,
     error_message |-> PyNone, result_url |-> PyNone, worker_id |-> PyNone]

(* str(v) of an optional string field *)
StrOf(v) == IF v = PyNone THEN StrNone ELSE v

_serialize_job(o) ==
    [exists |-> TRUE, user_id |-> o.user_id, tier |-> o.tier,
     status |-> o.status, priority |-> o.priority,
     created_at |-> o.created_at,
     started_at |-> IF o.started_at = NoTime THEN EmptyStr ELSE o.started_at,
     completed_at |-> IF o.completed_at = NoTime THEN EmptyStr ELSE o.completed_at,
     error_message |-> StrOf(o.error_message),
     result_url |-> StrOf(o.result_url),
     worker_id |-> StrOf(o.worker_id)]

_deserialize_job(id, h) ==
    [job_id |-> id, user_id |-> h.user_id, tier |-> h.tier,
     status |-> h.status, priority |-> h.priority,
     created_at |-> h.created_at,
     started_at |-> IF h.started_at = EmptyStr THEN NoTime ELSE h.started_at,
     completed_at |-> IF h.completed_at = EmptyStr THEN NoTime ELSE h.completed_at,
     error_message |-> h.error_message,
     result_url |-> h.result_url,
     worker_id |-> h.worker_id]

(* ------------------------- Redis primitives --------------------------- *)
(* a sorted set is a set of [id, score]; order is by score, then member   *)
(* job ids are uuid4 strings: the n-th id drawn sorts independently of n; *)
(* UuidRank is the lexicographic rank of the n-th id (ids swap in pairs)  *)
UuidRank(id) == IF id % 2 = 1 THEN id + 1 ELSE id - 1
Before(a, b) ==
    \/ a.score < b.score
    \/ (a.score = b.score /\ UuidRank(a.id) < UuidRank(b.id))
zadd(z, id, s) == {e \in z : e.id # id} \cup {[id |-> id, score |-> s]}
zrem(z, id) == {e \in z : e.id # id}
zcard(z) == Cardinality(z)
zrangeLast(z) == {e \in z : \A f \in z : f = e \/ Before(f, e)}

(* zrange(key, 0, 0, withscores=True): the first entry, or the empty list *)
zrange00(z) == {e \in z : \A f \in z : f = e \/ Before(e, f)}
(* zrank(key, member): entries before it, or None (-1) when absent        *)
zrank(z, id) ==
    IF \E e \in z : e.id = id
    THEN Cardinality({f \in z : \E e \in z : e.id = id /\ Before(f, e)})
    ELSE -1
zmembers(z) == {e.id : e \in z}
lpush(l, x) == <<x>> \o l
lrem0(l, x) == SelectSeq(l, LAMBDA y : y # x)
llen(l) == Len(l)
(* LLEN on the key of the pending sorted set: 0 while the key is absent   *)
(* (empty sorted set), a WRONGTYPE ResponseError (-1 here) once it exists *)
WrongType == -1
llen_pending(z) == IF z = {} THEN 0 ELSE WrongType

(* ------------------------------ state --------------------------------- *)
VARIABLES
    clock,        \* time.time() / datetime.now(), in seconds
    ticks,        \* number of clock advances so far
    pending,      \* projects:pending  (sorted set)
    scored,       \* history: the (priority, time.time()) each pending
                  \* member's score was computed from; NotScored otherwise
    processing,   \* projects:processing (list)
    completed,    \* projects:completed (list)
    failed,       \* projects:failed (list)
    job,          \* job:{id} hashes
    jobTtl,       \* expiry instant of job:{id}; 0 = no TTL
    timeout,      \* expiry instant of job:{id}:timeout; 0 = key absent
    counter,      \* user:{u}:jobs:{month} counters; 0 = key absent
    counterTtl,   \* expiry instant of the counter key; 0 = no TTL
    allocated,    \* number of job ids already drawn by uuid4
    cpc, cjob,    \* API handler: position, the ProjectJob being submitted
    ckey,         \* API handler: month of the month_key it formatted
    cres,         \* API handler: the response of a read request (while it
                  \* is built, and once returned); NoRes otherwise
    wpc, wjob, wobj, \* worker: position, claimed job id, loaded ProjectJob
    admitted,     \* history: admissions submit_job has counted for each
                  \* (user, month), whatever became of the counter key
    creq          \* history: job ids a cancel request was answered for

store == <<pending, scored, processing, completed, failed, job, jobTtl, timeout,
           counter, counterTtl>>
cvars == <<cpc, cjob, ckey, cres, allocated>>
wvars == <<wpc, wjob, wobj>>
history == <<admitted, creq>>
vars == <<clock, ticks, pending, scored, processing, completed, failed, job, jobTtl,
          timeout, counter, counterTtl, allocated, cpc, cjob, ckey, wpc, wjob,
          wobj, admitted, creq, cres>>

CounterKeys == Users \X (0..((MaxTicks * LongWait) \div MonthSeconds))

(* a fresh Redis database, idle API handlers and workers *)
Init ==
    /\ clock = 0
    /\ ticks = 0
    /\ pending = {}
    /\ scored = [j \in JobIds |-> NotScored]
    /\ processing = <<>>
    /\ completed = <<>>
    /\ failed = <<>>
    /\ job = [j \in JobIds |-> NoHash]
    /\ jobTtl = [j \in JobIds |-> 0]
    /\ timeout = [j \in JobIds |-> 0]
    /\ counter = [k \in CounterKeys |-> 0]
    /\ counterTtl = [k \in CounterKeys |-> 0]
    /\ admitted = [k \in CounterKeys |-> 0]
    /\ creq = {}
    /\ allocated = 0
    /\ cpc = [c \in Clients |-> "idle"]
    /\ cjob = [c \in Clients |-> NoObj]
    /\ ckey = [c \in Clients |-> 0]
    /\ cres = [c \in Clients |-> NoRes]
    /\ wpc = [w \in Workers |-> "idle"]
    /\ wjob = [w \in Workers |-> 0]
    /\ wobj = [w \in Workers |-> NoObj]

(* ------------------------------ clock --------------------------------- *)
(* time passes; Redis drops the keys whose TTL has run out                *)
Elapse(d) ==
        /\ ticks < MaxTicks
        /\ ticks' = ticks + 1
        /\ clock' = clock + d
        /\ job' = [j \in JobIds |->
                     IF jobTtl[j] # 0 /\ jobTtl[j] <= clock + d
                     THEN NoHash ELSE job[j]]
        /\ jobTtl' = [j \in JobIds |->
                     IF jobTtl[j] # 0 /\ jobTtl[j] <= clock + d
                     THEN 0 ELSE jobTtl[j]]
        /\ timeout' = [j \in JobIds |->
                     IF timeout[j] <= clock + d THEN 0 ELSE timeout[j]]
        /\ counter' = [k \in CounterKeys |->
                     IF counterTtl[k] # 0 /\ counterTtl[k] <= clock + d
                     THEN 0 ELSE counter[k]]
        /\ counterTtl' = [k \in CounterKeys |->
                     IF counterTtl[k] # 0 /\ counterTtl[k] <= clock + d
                     THEN 0 ELSE counterTtl[k]]
        /\ UNCHANGED <<pending, scored, processing, completed, failed>>
        /\ UNCHANGED <<history, cvars, wvars>>

Tick == \E d \in TickSteps : Elapse(d)

TickMonth == \E d \in MonthTickSteps : Elapse(d)

(* -------------------- create_project / submit_job --------------------- *)
(* _get_queue_position: rank + 1, or 0 when zrank answers None            *)
_get_queue_position(z, id) == IF zrank(z, id) = -1 THEN 0 ELSE zrank(z, id) + 1

(* an estimate that shares the queue among the concurrent workers         *)
_estimate_start_shared(position, now) ==
    now + (position * 600) \div MAX_CONCURRENT_JOBS

(* _estimate_start_time: now + position * POSITION_ESTIMATE_SECONDS / 60  *)
(* minutes, kept in seconds                                               *)
POSITION_ESTIMATE_SECONDS == 600
_estimate_start_time(position, now) ==
    now + position * POSITION_ESTIMATE_SECONDS

(* create_project: HTTPException(status_code=400, detail=str(e)) for     *)
(* every exception; JSONResponse(status_code=202, content=result)         *)
RefusedTooMany(detail) == [code |-> 429, detail |-> detail]
Refused(detail) == [code |-> 400, detail |-> detail]
Accepted(id, position, now) ==
    [code |-> 202, job_id |-> id, status |-> "queued",
     queue_position |-> position,
     estimated_start |-> _estimate_start_time(position, now),
     estimated_wait_minutes |-> position * 10]

(* create_project: builds the ProjectJob (uuid4 id, priority from the     *)
(* tier table, created_at = now) and calls submit_job                     *)
(* a tier without a PRIORITY_ entry is a KeyError in the ProjectJob call, *)
(* answered like every exception of the handler                           *)
create_project(c, RequestTiers) ==
    \E u \in Users, t \in RequestTiers :
        /\ cpc[c] = "idle"
        /\ IF t \in Tiers
           THEN /\ allocated < MaxJobs
                /\ cjob' = [cjob EXCEPT ![c] =
                               NewJob(allocated + 1, u, t, clock)]
                /\ allocated' = allocated + 1
                /\ cpc' = [cpc EXCEPT ![c] = "sj_llen"]
                /\ cres' = [cres EXCEPT ![c] = NoRes]
           ELSE /\ cres' = [cres EXCEPT ![c] = Refused("KeyError")]
                /\ UNCHANGED <<cjob, allocated, cpc>>
        /\ UNCHANGED <<history, clock, ticks, store, ckey, wvars>>

(* queue_size = llen(QUEUE_PENDING); raise when >= MAX_QUEUE_SIZE.  The   *)
(* ResponseError of LLEN on an existing sorted set ends the request too   *)
submit_job_llen(c) ==
    /\ cpc[c] = "sj_llen"
    /\ LET queue_size == llen_pending(pending) IN
         IF queue_size = WrongType \/ queue_size >= MAX_QUEUE_SIZE
         THEN /\ cpc' = [cpc EXCEPT ![c] = "idle"]
              /\ cjob' = [cjob EXCEPT ![c] = NoObj]
              /\ cres' = [cres EXCEPT ![c] =
                             Refused(IF queue_size = WrongType
                                     THEN "WRONGTYPE"
                                     ELSE "Queue is full")]
         ELSE /\ cpc' = [cpc EXCEPT ![c] = "sj_limit"]
              /\ cjob' = cjob
              /\ cres' = cres
    /\ UNCHANGED <<history, clock, ticks, store, allocated, ckey, wvars>>

(* _check_user_limit(user_id, tier) *)
_check_user_limit(u, t) ==
    IF MonthlyLimit(t) = -1 THEN TRUE
    ELSE counter[<<u, MonthOf(clock)>>] < MonthlyLimit(t)

(* a quota step that counts the submission before it checks the limit    *)
submit_job_limit_counting(c) ==
    /\ cpc[c] = "sj_limit"
    /\ counter' = [counter EXCEPT
                      ![<<cjob[c].user_id, MonthOf(clock)>>] = @ + 1]
    /\ IF _check_user_limit(cjob[c].user_id, cjob[c].tier)
       THEN /\ cpc' = [cpc EXCEPT ![c] = "sj_zadd"]
            /\ cjob' = cjob
            /\ cres' = cres
       ELSE /\ cpc' = [cpc EXCEPT ![c] = "idle"]
            /\ cjob' = [cjob EXCEPT ![c] = NoObj]
            /\ cres' = [cres EXCEPT ![c] =
                           Refused("Monthly project limit reached")]
    /\ UNCHANGED <<history, clock, ticks, pending, scored, processing,
                   completed, failed, job, jobTtl, timeout, counterTtl,
                   allocated, ckey, wvars>>

submit_job_limit(c) ==
    /\ cpc[c] = "sj_limit"
    /\ IF _check_user_limit(cjob[c].user_id, cjob[c].tier)
       THEN /\ cpc' = [cpc EXCEPT ![c] = "sj_zadd"]
            /\ cjob' = cjob
            /\ cres' = cres
       ELSE /\ cpc' = [cpc EXCEPT ![c] = "idle"]
            /\ cjob' = [cjob EXCEPT ![c] = NoObj]
            /\ cres' = [cres EXCEPT ![c] =
                           Refused("Monthly project limit reached")]
    /\ UNCHANGED <<history, clock, ticks, store, allocated, ckey, wvars>>

ScoreNewestFirst(priority, now) == priority * SHIFT - now

ScoreUnshifted(priority, now) == priority + now

(* score = job.priority * 1000000 + time.time() *)
Score(priority, now) == priority * SHIFT + now

submit_job_zadd(c) ==
    /\ cpc[c] = "sj_zadd"
    /\ pending' = zadd(pending, cjob[c].job_id, Score(cjob[c].priority, clock))
    /\ scored' = [scored EXCEPT ![cjob[c].job_id] =
                    [priority |-> cjob[c].priority, at |-> clock]]
    /\ cpc' = [cpc EXCEPT ![c] = "sj_hset"]
    /\ UNCHANGED <<cres, history, clock, ticks, processing, completed, failed, job, jobTtl,
                   timeout, counter, counterTtl, allocated, cjob, ckey,
                   wvars>>

submit_job_hset(c) ==
    /\ cpc[c] = "sj_hset"
    /\ job' = [job EXCEPT ![cjob[c].job_id] = _serialize_job(cjob[c])]
    /\ cpc' = [cpc EXCEPT ![c] = "sj_incr"]
    /\ UNCHANGED <<cres, history, clock, ticks, pending, scored, processing, completed, failed,
                   jobTtl, timeout, counter, counterTtl, allocated, cjob, ckey,
                   wvars>>

(* month_key is formatted once (line 122) and used by incr and expire    *)
submit_job_incr(c) ==
    /\ cpc[c] = "sj_incr"
    /\ LET k == <<cjob[c].user_id, MonthOf(clock)>> IN
         /\ counter' = [counter EXCEPT ![k] = @ + 1]
         /\ admitted' = [admitted EXCEPT ![k] = @ + 1]
    /\ ckey' = [ckey EXCEPT ![c] = MonthOf(clock)]
    /\ cpc' = [cpc EXCEPT ![c] = "sj_expire"]
    /\ UNCHANGED <<cres, creq, clock, ticks, pending, scored, processing, completed,
                   failed, job, jobTtl, timeout, counterTtl, allocated, cjob,
                   wvars>>

(* expire(month_key, 2592000); EXPIRE on a key that is gone does nothing  *)
submit_job_expire(c) ==
    /\ cpc[c] = "sj_expire"
    /\ LET k == <<cjob[c].user_id, ckey[c]>> IN
         counterTtl' = [counterTtl EXCEPT ![k] =
                          IF counter[k] = 0 THEN @ ELSE clock + MONTH_KEY_TTL]
    /\ ckey' = [ckey EXCEPT ![c] = 0]
    /\ cpc' = [cpc EXCEPT ![c] = "sj_zrank"]
    /\ UNCHANGED <<cres, history, clock, ticks, pending, scored, processing, completed,
                   failed, job, jobTtl, timeout, counter, allocated, cjob,
                   wvars>>

(* position = _get_queue_position(job_id); the 202 response is returned   *)
submit_job_zrank(c) ==
    /\ cpc[c] = "sj_zrank"
    /\ cpc' = [cpc EXCEPT ![c] = "idle"]
    /\ cjob' = [cjob EXCEPT ![c] = NoObj]
    /\ cres' = [cres EXCEPT ![c] =
                   Accepted(cjob[c].job_id,
                            _get_queue_position(pending, cjob[c].job_id),
                            clock)]
    /\ UNCHANGED <<history, clock, ticks, store, allocated, ckey, wvars>>

(* ------------------------- the other routes --------------------------- *)
(* POST /api/v1/projects/{job_id}/cancel: the app has no such route (its  *)
(* routes are POST /projects, GET /projects/{job_id}, GET /queue/stats    *)
(* and GET /health), so the request is answered 404 by the router and     *)
(* no command reaches Redis                                               *)
cancel_project(c) ==
    \E j \in JobIds :
        /\ cpc[c] = "idle"
        /\ creq' = creq \cup {j}
        /\ cres' = [cres EXCEPT ![c] = [code |-> 404]]
        /\ UNCHANGED <<admitted, clock, ticks, store, cpc, cjob, ckey,
                       allocated, wvars>>

(* ---------------------------- get_job_status -------------------------- *)
(* timedelta.seconds: the seconds of the difference within its day        *)
DaySeconds == 86400
TimedeltaSeconds(a, b) == (a - b) % DaySeconds

(* a view that carries every field of the job whatever its status         *)
StatusViewFull(o, now) ==
    [code |-> 200, job_id |-> o.job_id, status |-> o.status,
     created_at |-> o.created_at, started_at |-> o.started_at,
     completed_at |-> o.completed_at, worker_id |-> o.worker_id,
     result_url |-> o.result_url, error |-> o.error_message]

(* the part of the view that needs no further command; a None timestamp   *)
(* in the arithmetic or in isoformat() is an exception (500)              *)
StatusView(o, now) ==
    LET base == [code |-> 200, job_id |-> o.job_id, status |-> o.status,
                 created_at |-> o.created_at]
    IN  CASE o.status = "processing" ->
                IF o.started_at = NoTime THEN [code |-> 500]
                ELSE [code |-> 200, job_id |-> o.job_id,
                      status |-> o.status, created_at |-> o.created_at,
                      started_at |-> o.started_at,
                      elapsed_seconds |->
                          TimedeltaSeconds(now, o.started_at),
                      worker_id |-> o.worker_id]
          [] o.status = "completed" ->
                IF o.started_at = NoTime \/ o.completed_at = NoTime
                THEN [code |-> 500]
                ELSE [code |-> 200, job_id |-> o.job_id,
                      status |-> o.status, created_at |-> o.created_at,
                      completed_at |-> o.completed_at,
                      result_url |-> o.result_url,
                      duration_seconds |->
                          TimedeltaSeconds(o.completed_at, o.started_at)]
          [] o.status = "failed" ->
                IF o.completed_at = NoTime THEN [code |-> 500]
                ELSE [code |-> 200, job_id |-> o.job_id,
                      status |-> o.status, created_at |-> o.created_at,
                      completed_at |-> o.completed_at,
                      error |-> o.error_message]
          [] OTHER -> base

QueuedView(o, position, now) ==
    [code |-> 200, job_id |-> o.job_id, status |-> o.status,
     created_at |-> o.created_at, queue_position |-> position,
     estimated_start |-> _estimate_start_time(position, now),
     estimated_wait_minutes |-> position * 10]

(* a status read that answers an unknown id with an empty view            *)
get_job_status_lenient(c) ==
    \E j \in JobIds :
        /\ cpc[c] = "idle"
        /\ IF ~job[j].exists
           THEN /\ cres' = [cres EXCEPT ![c] = [code |-> 200, job_id |-> j]]
                /\ UNCHANGED <<cpc, cjob>>
           ELSE LET o == _deserialize_job(j, job[j]) IN
                IF o.status = "queued"
                THEN /\ cpc' = [cpc EXCEPT ![c] = "gs_zrank"]
                     /\ cjob' = [cjob EXCEPT ![c] = o]
                     /\ cres' = [cres EXCEPT ![c] = NoRes]
                ELSE /\ cres' = [cres EXCEPT ![c] = StatusView(o, clock)]
                     /\ UNCHANGED <<cpc, cjob>>
        /\ UNCHANGED <<history, clock, ticks, store, ckey, allocated, wvars>>

(* a status read that also renews the retention of the hash it reads      *)
get_job_status_touch(c) ==
    \E j \in JobIds :
        /\ cpc[c] = "idle"
        /\ job[j].exists
        /\ cres' = [cres EXCEPT ![c] =
                       StatusView(_deserialize_job(j, job[j]), clock)]
        /\ jobTtl' = [jobTtl EXCEPT ![j] = clock + JOB_RETENTION_SECONDS]
        /\ UNCHANGED <<history, clock, ticks, pending, scored, processing,
                       completed, failed, job, timeout, counter, counterTtl,
                       cpc, cjob, ckey, allocated, wvars>>

(* GET /api/v1/projects/{job_id}: job_data = hgetall(job:{id}); 404 when  *)
(* empty; the view of a job that is not queued is complete here           *)
get_job_status_hgetall(c) ==
    \E j \in JobIds :
        /\ cpc[c] = "idle"
        /\ IF ~job[j].exists
           THEN /\ cres' = [cres EXCEPT ![c] = [code |-> 404, job_id |-> j]]
                /\ UNCHANGED <<cpc, cjob>>
           ELSE LET o == _deserialize_job(j, job[j]) IN
                IF o.status = "queued"
                THEN /\ cpc' = [cpc EXCEPT ![c] = "gs_zrank"]
                     /\ cjob' = [cjob EXCEPT ![c] = o]
                     /\ cres' = [cres EXCEPT ![c] = NoRes]
                ELSE /\ cres' = [cres EXCEPT ![c] = StatusView(o, clock)]
                     /\ UNCHANGED <<cpc, cjob>>
        /\ UNCHANGED <<history, clock, ticks, store, ckey, allocated, wvars>>

(* position = _get_queue_position(job_id) for a job read as queued        *)
get_job_status_zrank(c) ==
    /\ cpc[c] = "gs_zrank"
    /\ cres' = [cres EXCEPT ![c] =
                   QueuedView(cjob[c],
                              _get_queue_position(pending, cjob[c].job_id),
                              clock)]
    /\ cpc' = [cpc EXCEPT ![c] = "idle"]
    /\ cjob' = [cjob EXCEPT ![c] = NoObj]
    /\ UNCHANGED <<history, clock, ticks, store, ckey, allocated, wvars>>

(* ---------------------------- get_queue_stats ------------------------- *)
(* GET /api/v1/queue/stats: the dict is built entry by entry, one Redis   *)
(* read each: zcard(pending), llen(processing), llen(completed),          *)
(* llen(failed), and zcard(pending) again for _estimate_wait_time         *)
get_queue_stats_zcard(c) ==
    /\ cpc[c] = "idle"
    /\ cres' = [cres EXCEPT ![c] =
                   [code |-> 0, pending |-> zcard(pending), processing |-> -1,
                    completed_today |-> -1, failed_today |-> -1,
                    estimated_wait_minutes |-> -1]]
    /\ cpc' = [cpc EXCEPT ![c] = "st_llen"]
    /\ UNCHANGED <<history, clock, ticks, store, cjob, ckey, allocated, wvars>>

get_queue_stats_llen(c) ==
    /\ cpc[c] = "st_llen"
    /\ cres' = [cres EXCEPT ![c].processing = llen(processing)]
    /\ cpc' = [cpc EXCEPT ![c] = "st_completed"]
    /\ UNCHANGED <<history, clock, ticks, store, cjob, ckey, allocated, wvars>>

_get_completed_today(c) ==
    /\ cpc[c] = "st_completed"
    /\ cres' = [cres EXCEPT ![c].completed_today = llen(completed)]
    /\ cpc' = [cpc EXCEPT ![c] = "st_failed"]
    /\ UNCHANGED <<history, clock, ticks, store, cjob, ckey, allocated, wvars>>

_get_failed_today(c) ==
    /\ cpc[c] = "st_failed"
    /\ cres' = [cres EXCEPT ![c].failed_today = llen(failed)]
    /\ cpc' = [cpc EXCEPT ![c] = "st_wait"]
    /\ UNCHANGED <<history, clock, ticks, store, cjob, ckey, allocated, wvars>>

(* an estimate that rounds the minutes, not the batches of jobs           *)
_estimate_wait_rounded(c) ==
    /\ cpc[c] = "st_wait"
    /\ cres' = [cres EXCEPT
                   ![c].estimated_wait_minutes =
                       (zcard(pending) * 10) \div MAX_CONCURRENT_JOBS,
                   ![c].code = 200]
    /\ cpc' = [cpc EXCEPT ![c] = "idle"]
    /\ UNCHANGED <<history, clock, ticks, store, cjob, ckey, allocated, wvars>>

(* (pending // MAX_CONCURRENT_JOBS) * 10; the stats are returned          *)
_estimate_wait_time(c) ==
    /\ cpc[c] = "st_wait"
    /\ cres' = [cres EXCEPT
                   ![c].estimated_wait_minutes =
                       (zcard(pending) \div MAX_CONCURRENT_JOBS) * 10,
                   ![c].code = 200]
    /\ cpc' = [cpc EXCEPT ![c] = "idle"]
    /\ UNCHANGED <<history, clock, ticks, store, cjob, ckey, allocated, wvars>>

(* ------------------------ Worker.start loop --------------------------- *)
(* Worker(f"worker-{i}", ...) *)
WorkerId(w) == ToString(w)

AboveLimit(n) == n > MAX_CONCURRENT_JOBS

(* get_next_job: processing = llen(QUEUE_PROCESSING); None at the limit   *)
AtLimit(n) == n >= MAX_CONCURRENT_JOBS

get_next_job_llen(w) ==
    /\ wpc[w] = "idle"
    /\ wpc' = [wpc EXCEPT ![w] =
                 IF AtLimit(llen(processing)) THEN "none_limit"
                 ELSE "gn_zrange"]
    /\ UNCHANGED <<history, clock, ticks, store, cvars, wjob, wobj>>

(* jobs = zrange(QUEUE_PENDING, 0, 0, withscores=True); None when empty   *)
get_next_job_zrange(w) ==
    /\ wpc[w] = "gn_zrange"
    /\ IF zrange00(pending) = {}
       THEN /\ wpc' = [wpc EXCEPT ![w] = "none_empty"]
            /\ wjob' = wjob
       ELSE \E e \in zrange00(pending) :
            /\ wjob' = [wjob EXCEPT ![w] = e.id]
            /\ wpc' = [wpc EXCEPT ![w] = "gn_zrem"]
    /\ UNCHANGED <<history, clock, ticks, store, cvars, wobj>>

(* the result of zrem is not looked at *)
get_next_job_zrem(w) ==
    /\ wpc[w] = "gn_zrem"
    /\ pending' = zrem(pending, wjob[w])
    /\ scored' = [scored EXCEPT ![wjob[w]] = NotScored]
    /\ wpc' = [wpc EXCEPT ![w] = "gn_lpush"]
    /\ UNCHANGED <<history, clock, ticks, processing, completed, failed, job, jobTtl,
                   timeout, counter, counterTtl, cvars, wjob, wobj>>

get_next_job_lpush(w) ==
    /\ wpc[w] = "gn_lpush"
    /\ processing' = lpush(processing, wjob[w])
    /\ wpc' = [wpc EXCEPT ![w] = "gn_hgetall"]
    /\ UNCHANGED <<history, clock, ticks, pending, scored, completed, failed, job, jobTtl,
                   timeout, counter, counterTtl, cvars, wjob, wobj>>

(* job = _deserialize_job(hgetall(job:{id})); an empty hash is a KeyError *)
(* that Worker.start catches (sleep 10, next round)                       *)
get_next_job_hgetall(w) ==
    /\ wpc[w] = "gn_hgetall"
    /\ IF job[wjob[w]].exists
       THEN /\ wobj' = [wobj EXCEPT ![w] =
                          [_deserialize_job(wjob[w], job[wjob[w]]) EXCEPT
                              !.status = "processing",
                              !.started_at = clock,
                              !.worker_id = WorkerId(w)]]
            /\ wpc' = [wpc EXCEPT ![w] = "gn_hset"]
            /\ wjob' = wjob
       ELSE /\ wobj' = wobj
            /\ wpc' = [wpc EXCEPT ![w] = "error"]
            /\ wjob' = wjob
    /\ UNCHANGED <<history, clock, ticks, store, cvars>>

get_next_job_hset(w) ==
    /\ wpc[w] = "gn_hset"
    /\ job' = [job EXCEPT ![wjob[w]] = _serialize_job(wobj[w])]
    /\ wobj' = [wobj EXCEPT ![w] = NoObj]
    /\ wpc' = [wpc EXCEPT ![w] = "gn_setex"]
    /\ UNCHANGED <<history, clock, ticks, pending, scored, processing, completed, failed,
                   jobTtl, timeout, counter, counterTtl, cvars, wjob>>

(* setex(job:{id}:timeout, JOB_TIMEOUT_SECONDS, "1"); the job is returned *)
get_next_job_setex(w) ==
    /\ wpc[w] = "gn_setex"
    /\ timeout' = [timeout EXCEPT ![wjob[w]] = clock + JOB_TIMEOUT_SECONDS]
    /\ wpc' = [wpc EXCEPT ![w] = "working"]
    /\ UNCHANGED <<history, clock, ticks, pending, scored, processing, completed, failed, job,
                   jobTtl, counter, counterTtl, cvars, wjob, wobj>>

(* asyncio.sleep(5) after None (returned at the limit, or for an empty    *)
(* queue), asyncio.sleep(10) after a caught error; then the next round    *)
worker_sleep(w) ==
    /\ wpc[w] \in {"none_limit", "none_empty", "error"}
    /\ wpc' = [wpc EXCEPT ![w] = "idle"]
    /\ wjob' = [wjob EXCEPT ![w] = 0]
    /\ UNCHANGED <<history, clock, ticks, store, cvars, wobj>>

(* _process_project returns a result url, or raises                       *)
process_returns(w) ==
    /\ wpc[w] = "working"
    /\ wpc' = [wpc EXCEPT ![w] = "co_lrem"]
    /\ UNCHANGED <<history, clock, ticks, store, cvars, wjob, wobj>>

process_raises(w) ==
    /\ wpc[w] = "working"
    /\ wpc' = [wpc EXCEPT ![w] = "fa_lrem"]
    /\ UNCHANGED <<history, clock, ticks, store, cvars, wjob, wobj>>

(* the worker process dies while it awaits _process_project: it makes no  *)
(* further call                                                           *)
worker_killed(w) ==
    /\ wpc[w] = "working"
    /\ wpc' = [wpc EXCEPT ![w] = "dead"]
    /\ UNCHANGED <<history, clock, ticks, store, cvars, wjob, wobj>>

(* ---------------------------- complete_job ---------------------------- *)
complete_job_lrem(w) ==
    /\ wpc[w] = "co_lrem"
    /\ processing' = lrem0(processing, wjob[w])
    /\ wpc' = [wpc EXCEPT ![w] = "co_hgetall"]
    /\ UNCHANGED <<history, clock, ticks, pending, scored, completed, failed, job, jobTtl,
                   timeout, counter, counterTtl, cvars, wjob, wobj>>

(* a KeyError of _deserialize_job is caught by the worker's inner except, *)
(* which calls fail_job(job_id, str(e))                                   *)
complete_job_hgetall(w) ==
    /\ wpc[w] = "co_hgetall"
    /\ IF job[wjob[w]].exists
       THEN /\ wobj' = [wobj EXCEPT ![w] =
                          [_deserialize_job(wjob[w], job[wjob[w]]) EXCEPT
                              !.status = "completed",
                              !.completed_at = clock,
                              !.result_url = "url"]]
            /\ wpc' = [wpc EXCEPT ![w] = "co_hset"]
       ELSE /\ wobj' = wobj
            /\ wpc' = [wpc EXCEPT ![w] = "fa_lrem"]
    /\ UNCHANGED <<history, clock, ticks, store, cvars, wjob>>

complete_job_hset(w) ==
    /\ wpc[w] = "co_hset"
    /\ job' = [job EXCEPT ![wjob[w]] = _serialize_job(wobj[w])]
    /\ wobj' = [wobj EXCEPT ![w] = NoObj]
    /\ wpc' = [wpc EXCEPT ![w] = "co_lpush"]
    /\ UNCHANGED <<history, clock, ticks, pending, scored, processing, completed, failed,
                   jobTtl, timeout, counter, counterTtl, cvars, wjob>>

complete_job_lpush(w) ==
    /\ wpc[w] = "co_lpush"
    /\ completed' = lpush(completed, wjob[w])
    /\ wpc' = [wpc EXCEPT ![w] = "co_expire"]
    /\ UNCHANGED <<history, clock, ticks, pending, scored, processing, failed, job, jobTtl,
                   timeout, counter, counterTtl, cvars, wjob, wobj>>

(* expire(job:{id}, 604800); nothing happens when the hash is gone        *)
complete_job_expire(w) ==
    /\ wpc[w] = "co_expire"
    /\ jobTtl' = [jobTtl EXCEPT ![wjob[w]] =
                    IF job[wjob[w]].exists
                    THEN clock + JOB_RETENTION_SECONDS ELSE @]
    /\ wpc' = [wpc EXCEPT ![w] = "idle"]
    /\ wjob' = [wjob EXCEPT ![w] = 0]
    /\ UNCHANGED <<history, clock, ticks, pending, scored, processing, completed, failed, job,
                   timeout, counter, counterTtl, cvars, wobj>>

(* a Redis command of complete_job after its hset (lpush, expire) raises,  *)
(* e.g. redis.ConnectionError: the worker's inner except calls fail_job    *)
complete_job_raises(w) ==
    /\ wpc[w] \in {"co_lpush", "co_expire"}
    /\ wpc' = [wpc EXCEPT ![w] = "fa_lrem"]
    /\ UNCHANGED <<history, clock, ticks, store, cvars, wjob, wobj>>

(* ------------------------------ fail_job ------------------------------ *)
fail_job_lrem(w) ==
    /\ wpc[w] = "fa_lrem"
    /\ processing' = lrem0(processing, wjob[w])
    /\ wpc' = [wpc EXCEPT ![w] = "fa_hgetall"]
    /\ UNCHANGED <<history, clock, ticks, pending, scored, completed, failed, job, jobTtl,
                   timeout, counter, counterTtl, cvars, wjob, wobj>>

(* here a KeyError leaves fail_job and is caught by the outer except      *)
fail_job_hgetall(w) ==
    /\ wpc[w] = "fa_hgetall"
    /\ IF job[wjob[w]].exists
       THEN /\ wobj' = [wobj EXCEPT ![w] =
                          [_deserialize_job(wjob[w], job[wjob[w]]) EXCEPT
                              !.status = "failed",
                              !.completed_at = clock,
                              !.error_message = "error"]]
            /\ wpc' = [wpc EXCEPT ![w] = "fa_hset"]
       ELSE /\ wobj' = wobj
            /\ wpc' = [wpc EXCEPT ![w] = "error"]
    /\ UNCHANGED <<history, clock, ticks, store, cvars, wjob>>

fail_job_hset(w) ==
    /\ wpc[w] = "fa_hset"
    /\ job' = [job EXCEPT ![wjob[w]] = _serialize_job(wobj[w])]
    /\ wobj' = [wobj EXCEPT ![w] = NoObj]
    /\ wpc' = [wpc EXCEPT ![w] = "fa_lpush"]
    /\ UNCHANGED <<history, clock, ticks, pending, scored, processing, completed, failed,
                   jobTtl, timeout, counter, counterTtl, cvars, wjob>>

fail_job_lpush(w) ==
    /\ wpc[w] = "fa_lpush"
    /\ failed' = lpush(failed, wjob[w])
    /\ wpc' = [wpc EXCEPT ![w] = "idle"]
    /\ wjob' = [wjob EXCEPT ![w] = 0]
    /\ UNCHANGED <<history, clock, ticks, pending, scored, processing, completed, job, jobTtl,
                   timeout, counter, counterTtl, cvars, wobj>>

(* --------------------------- specification ---------------------------- *)
ApiSteps(c, RequestTiers) ==
    \/ create_project(c, RequestTiers)
    \/ submit_job_llen(c)
    \/ submit_job_limit(c)
    \/ submit_job_zadd(c)
    \/ submit_job_hset(c)
    \/ submit_job_incr(c)
    \/ submit_job_expire(c)
    \/ submit_job_zrank(c)

ReadSteps(c) ==
    \/ get_job_status_hgetall(c)
    \/ get_job_status_zrank(c)
    \/ get_queue_stats_zcard(c)
    \/ get_queue_stats_llen(c)
    \/ _get_completed_today(c)
    \/ _get_failed_today(c)
    \/ _estimate_wait_time(c)

WorkerSteps(w) ==
    \/ get_next_job_llen(w)
    \/ get_next_job_zrange(w)
    \/ get_next_job_zrem(w)
    \/ get_next_job_lpush(w)
    \/ get_next_job_hgetall(w)
    \/ get_next_job_hset(w)
    \/ get_next_job_setex(w)
    \/ worker_sleep(w)
    \/ process_returns(w)
    \/ process_raises(w)
    \/ complete_job_lrem(w)
    \/ complete_job_hgetall(w)
    \/ complete_job_hset(w)
    \/ complete_job_lpush(w)
    \/ complete_job_expire(w)
    \/ fail_job_lrem(w)
    \/ fail_job_hgetall(w)
    \/ fail_job_hset(w)
    \/ fail_job_lpush(w)

(* the workers of the deployment pull the jobs one API handler submits    *)
NextWorkers ==
    \/ ApiSteps(1, {"enterprise"})
    \/ \E w \in Workers : WorkerSteps(w)

SpecWorkers == Init /\ [][NextWorkers]_vars

(* concurrent API handlers submit jobs of two tiers over time; one worker *)
NextOrder ==
    \/ Tick
    \/ \E c \in Clients : ApiSteps(c, {"free", "enterprise"})
    \/ WorkerSteps(1)

SpecOrder == Init /\ [][NextOrder]_vars

(* one user submits request after request over the month, under any tier *)
NextQuota ==
    \/ TickMonth
    \/ ApiSteps(1, {"free", "indie", "pro"})
    \/ WorkerSteps(1)

SpecQuota == Init /\ [][NextQuota]_vars

(* one request is submitted; worker 1 may die at work; the clock runs,    *)
(* and the workers that are alive keep looping (asyncio schedules every   *)
(* running worker task)                                                   *)
OneRequest == ApiSteps(1, {"enterprise"}) /\ allocated' = 1

NextCrash ==
    \/ Tick
    \/ OneRequest
    \/ \E w \in Workers : WorkerSteps(w)
    \/ worker_killed(1)

SpecCrash ==
    /\ Init
    /\ [][NextCrash]_vars
    /\ WF_vars(Tick)
    /\ WF_vars(OneRequest)
    /\ \A w \in Workers : WF_vars(WorkerSteps(w))

(* a client submits jobs and asks to cancel them; one worker              *)
NextCancel ==
    \/ ApiSteps(1, {"enterprise"})
    \/ cancel_project(1)
    \/ WorkerSteps(1)

SpecCancel == Init /\ [][NextCancel]_vars

(* clients read job statuses and queue statistics while jobs are          *)
(* submitted and worked on                                                *)
NextRead ==
    \/ ApiSteps(1, {"enterprise"})
    \/ \E c \in Clients : ReadSteps(c)
    \/ WorkerSteps(1)

SpecRead == Init /\ [][NextRead]_vars

(* the submit route alone, asked with a known and an unknown tier, and    *)
(* one worker                                                             *)
NextHttp ==
    \/ ApiSteps(1, {"free", "gold"})
    \/ WorkerSteps(1)

SpecHttp == Init /\ [][NextHttp]_vars

(* submissions and status reads while time passes, with one worker        *)
NextEstimate ==
    \/ Tick
    \/ ApiSteps(1, {"pro"})
    \/ get_job_status_hgetall(2)
    \/ get_job_status_zrank(2)
    \/ WorkerSteps(1)

SpecEstimate == Init /\ [][NextEstimate]_vars

(* the statistics route asked while n submissions, which passed the size  *)
(* check together, have run their zadd: n from 0 to MaxPending            *)
InitStats ==
    /\ clock = 0
    /\ ticks = 0
    /\ \E n \in 0..MaxPending :
           pending = {[id |-> i, score |-> Score(PRIORITY_FREE, 0)] : i \in 1..n}
    /\ scored = [j \in JobIds |-> NotScored]
    /\ processing = <<>>
    /\ completed = <<>>
    /\ failed = <<>>
    /\ job = [j \in JobIds |-> NoHash]
    /\ jobTtl = [j \in JobIds |-> 0]
    /\ timeout = [j \in JobIds |-> 0]
    /\ counter = [k \in CounterKeys |-> 0]
    /\ counterTtl = [k \in CounterKeys |-> 0]
    /\ admitted = [k \in CounterKeys |-> 0]
    /\ creq = {}
    /\ allocated = 0
    /\ cpc = [c \in Clients |-> "idle"]
    /\ cjob = [c \in Clients |-> NoObj]
    /\ ckey = [c \in Clients |-> 0]
    /\ cres = [c \in Clients |-> NoRes]
    /\ wpc = [w \in Workers |-> "idle"]
    /\ wjob = [w \in Workers |-> 0]
    /\ wobj = [w \in Workers |-> NoObj]

StatsSteps(c) ==
    \/ get_queue_stats_zcard(c)
    \/ get_queue_stats_llen(c)
    \/ _get_completed_today(c)
    \/ _get_failed_today(c)
    \/ _estimate_wait_time(c)

NextStats == \E c \in Clients : StatsSteps(c)

SpecStats == InitStats /\ [][NextStats]_vars

(* one job worked off by one worker while the statistics are read and a   *)
(* second or a day passes                                                 *)
TickDay == \E d \in {1, DaySeconds} : Elapse(d)

NextDaily ==
    \/ TickDay
    \/ OneRequest
    \/ WorkerSteps(1)
    \/ StatsSteps(2)

SpecDaily == Init /\ [][NextDaily]_vars

(* one worker whose connection to Redis can fail within complete_job      *)
NextFault ==
    \/ ApiSteps(1, {"enterprise"})
    \/ WorkerSteps(1)
    \/ complete_job_raises(1)

SpecFault == Init /\ [][NextFault]_vars

(* two free-tier submissions of one user handled at the same time, and    *)
(* one worker                                                             *)
NextRace ==
    \/ \E c \in Clients : ApiSteps(c, {"free"})
    \/ WorkerSteps(1)

SpecRace == Init /\ [][NextRace]_vars

(* the submit handler and one worker that never crashes, each scheduled   *)
(* again and again; _process_project always returns or raises;            *)
(* submissions stop after MaxJobs                                         *)
NextLive ==
    \/ ApiSteps(1, {"enterprise"})
    \/ WorkerSteps(1)

SpecLive ==
    /\ Init /\ [][NextLive]_vars
    /\ WF_vars(ApiSteps(1, {"enterprise"}))
    /\ WF_vars(WorkerSteps(1))

(* ------------------------------ claims -------------------------------- *)
Count(l, x) == Cardinality({i \in 1..Len(l) : l[i] = x})
InList(l, x) == \E i \in 1..Len(l) : l[i] = x
ClaimSteps == {"gn_zrem", "gn_lpush", "gn_hgetall", "gn_hset", "gn_setex"}
CompleteSteps == {"co_lrem", "co_hgetall", "co_hset", "co_lpush", "co_expire"}
FailSteps == {"fa_lrem", "fa_hgetall", "fa_hset", "fa_lpush"}
(* get_next_job has returned job j to worker w, which still works on it   *)
Holds(w, j) ==
    wjob[w] = j /\ wpc[w] \in {"working"} \cup CompleteSteps \cup FailSteps
(* some call of worker w is in the middle of moving or finishing job j    *)
Handling(w, j) ==
    wjob[w] = j /\ wpc[w] \in ClaimSteps \cup CompleteSteps \cup FailSteps
StatusOf(j) == IF job[j].exists THEN job[j].status ELSE "none"
Terminal == {"completed", "failed", "cancelled"}

(* C1: a job is handed out by get_next_job to at most one worker: no two  *)
(* workers hold the same job_id as the job their call returned.           *)
C1_ExclusiveClaim ==
    \A w1, w2 \in Workers, j \in JobIds :
        Holds(w1, j) /\ Holds(w2, j) => w1 = w2

(* C2: a job whose status is queued or processing is never in pending and *)
(* in-flight at once, never twice in the in-flight list, and, while no    *)
(* call is in the middle of moving it, in one of the two indexes.         *)
C2_OneActiveIndex ==
    \A j \in JobIds :
        StatusOf(j) \in {"queued", "processing"} =>
            /\ ~(j \in zmembers(pending) /\ InList(processing, j))
            /\ Count(processing, j) <= 1
            /\ (\A w \in Workers : ~Handling(w, j)) =>
                   (j \in zmembers(pending) \/ InList(processing, j))

(* C3: no job_id is in both terminal rings (completed and failed).        *)
C3_OneTerminalRing ==
    \A j \in JobIds : ~(InList(completed, j) /\ InList(failed, j))

(* the zrange step of get_next_job by which worker w takes job b          *)
Takes(w, b) ==
    wpc[w] = "gn_zrange" /\ wpc'[w] = "gn_zrem" /\ wjob'[w] = b

(* C4: the job get_next_job takes is of the highest-priority tier among   *)
(* the pending jobs, whenever they were submitted.                        *)
C4_PriorityOrder ==
    [][\A w \in Workers, b \in JobIds :
          Takes(w, b) =>
              \A a \in zmembers(pending) :
                  scored[a].priority >= scored[b].priority]_vars

(* C5: among the pending jobs of one tier, get_next_job takes no job      *)
(* while one that was enqueued earlier is still pending.                  *)
C5_FifoWithinTier ==
    [][\A w \in Workers, b \in JobIds :
          Takes(w, b) =>
              \A a \in zmembers(pending) :
                  scored[a].priority = scored[b].priority =>
                      scored[a].at >= scored[b].at]_vars

(* two jobs of one tier, enqueued at different times, were pending and    *)
(* get_next_job has just taken the earlier one                            *)
C5_Witness ==
    \E w \in Workers, a \in zmembers(pending) :
        /\ wpc[w] = "gn_zrem"
        /\ wjob[w] \in zmembers(pending)
        /\ scored[a].priority = scored[wjob[w]].priority
        /\ scored[wjob[w]].at < scored[a].at

(* C6: the job get_next_job reads as the head, and then returns, has a    *)
(* lowest score among the members of pending at that read.                *)
C6_LowestScore ==
    [][\A w \in Workers :
          /\ \A b \in JobIds :
                Takes(w, b) =>
                    \E e \in pending :
                        e.id = b /\ \A f \in pending : e.score <= f.score
          /\ wpc[w] \in ClaimSteps => wjob'[w] = wjob[w]]_vars

(* get_next_job has just taken the lower-scored of two pending jobs       *)
C6_Witness ==
    \E w \in Workers, e, f \in pending :
        /\ wpc[w] = "gn_zrem"
        /\ e.id = wjob[w]
        /\ e.score < f.score

(* worker w takes a step of its own                                       *)
Steps(w) == wpc'[w] # wpc[w]

(* C7: get_next_job returns None and changes nothing when the in-flight   *)
(* list holds MAX_CONCURRENT_JOBS entries or more; below that it goes on  *)
(* and takes the head of a non-empty pending set; and the lrem of         *)
(* complete_job on a full in-flight list brings it below the limit.       *)
C7_ConcurrencyCap ==
    [][\A w \in Workers :
          /\ (wpc[w] = "idle" /\ Steps(w)) =>
                IF Len(processing) >= MAX_CONCURRENT_JOBS
                THEN wpc'[w] = "none_limit" /\ UNCHANGED store
                ELSE wpc'[w] = "gn_zrange"
          /\ (wpc[w] = "none_limit" /\ Steps(w)) =>
                wpc'[w] = "idle" /\ UNCHANGED store
          /\ (wpc[w] = "gn_zrange" /\ Steps(w) /\ pending # {}) =>
                wpc'[w] = "gn_zrem" /\ wjob'[w] \in zmembers(pending)
          /\ (wpc[w] = "co_lrem" /\ Steps(w)
                 /\ Len(processing) = MAX_CONCURRENT_JOBS
                 /\ InList(processing, wjob[w])) =>
                Len(processing') < MAX_CONCURRENT_JOBS]_vars

(* a worker was refused at the limit while another worker is about to     *)
(* complete one of the MAX_CONCURRENT_JOBS in-flight jobs                 *)
C7_Witness ==
    \E w, v \in Workers :
        /\ wpc[w] = "none_limit"
        /\ Len(processing) = MAX_CONCURRENT_JOBS
        /\ wpc[v] = "co_lrem"
        /\ InList(processing, wjob[v])

(* C8: a complete_job call on a job that a complete_job call already put  *)
(* in the completed ring changes neither the job hash nor the completed   *)
(* ring; likewise fail_job and the failed ring.                           *)
C8_Idempotent ==
    [][\A w \in Workers :
          /\ (wpc[w] \in CompleteSteps /\ Steps(w)
                 /\ InList(completed, wjob[w])) =>
                UNCHANGED <<job, completed>>
          /\ (wpc[w] \in FailSteps /\ Steps(w)
                 /\ InList(failed, wjob[w])) =>
                UNCHANGED <<job, failed>>]_vars

(* C9: a step of complete_job or fail_job on a job that is already in a   *)
(* terminal ring with a terminal status changes neither the job hash      *)
(* (status, completed_at, result, error) nor the terminal rings.          *)
C9_TerminalNoOp ==
    [][\A w \in Workers :
          (/\ wpc[w] \in CompleteSteps \cup FailSteps
           /\ Steps(w)
           /\ InList(completed, wjob[w]) \/ InList(failed, wjob[w])
           /\ StatusOf(wjob[w]) \in Terminal) =>
              UNCHANGED <<job, completed, failed>>]_vars

(* C10: every change of a stored status follows an edge of the status     *)
(* graph (the first write of the hash makes the job queued).              *)
StatusEdges ==
    {<<"none", "queued">>, <<"queued", "processing">>,
     <<"processing", "completed">>, <<"processing", "failed">>,
     <<"processing", "cancelled">>, <<"queued", "cancelled">>,
     <<"processing", "queued">>}

C10_StatusEdges ==
    [][\A j \in JobIds :
          StatusOf(j)' # StatusOf(j) =>
              <<StatusOf(j), StatusOf(j)'>> \in StatusEdges]_vars

(* ------------------------- claims: admission -------------------------- *)
(* API handler c takes the quota check of submit_job                      *)
QuotaStep(c) == cpc[c] = "sj_limit" /\ cpc'[c] # "sj_limit"
(* API handler c takes the queue size check of submit_job                 *)
SizeStep(c) == cpc[c] = "sj_llen" /\ cpc'[c] # "sj_llen"
Rejected(c) == cpc'[c] = "idle"

(* C11: the quota check rejects a submission exactly when the user's      *)
(* counter of the month is at the tier's limit (free 1, indie 10; pro and *)
(* enterprise never), so that a free-tier submission is let through when  *)
(* it is the user's first admission of the month and rejected when the    *)
(* user already had one.                                                  *)
C11_QuotaDecision ==
    [][\A c \in Clients :
          QuotaStep(c) =>
              LET t == cjob[c].tier
                  k == <<cjob[c].user_id, MonthOf(clock)>>
              IN  /\ Rejected(c) <=>
                         \/ (t = "free" /\ counter[k] >= 1)
                         \/ (t = "indie" /\ counter[k] >= 10)
                  /\ t = "free" => (Rejected(c) <=> admitted[k] >= 1)]_vars

(* C12: the queue size check of submit_job compares the cardinality of    *)
(* the pending sorted set with MAX_QUEUE_SIZE: it lets the submission     *)
(* through below the cap and rejects it at the cap or above.              *)
C12_QueueFull ==
    [][\A c \in Clients :
          SizeStep(c) =>
              (Rejected(c) <=> zcard(pending) >= MAX_QUEUE_SIZE)]_vars

(* C13: within its month, the counter of a (user, month) never goes down; *)
(* it changes only by the incr of an admitted submission, by exactly one, *)
(* and every such incr raises it.                                         *)
C13_CounterMonotone ==
    [][\A k \in CounterKeys :
          /\ k[2] = MonthOf(clock') => counter'[k] >= counter[k]
          /\ counter'[k] > counter[k] =>
                 /\ counter'[k] = counter[k] + 1
                 /\ \E c \in Clients :
                        /\ cpc[c] = "sj_incr" /\ cpc'[c] = "sj_expire"
                        /\ k = <<cjob[c].user_id, MonthOf(clock)>>
          /\ \A c \in Clients :
                 (/\ cpc[c] = "sj_incr" /\ cpc'[c] = "sj_expire"
                  /\ k = <<cjob[c].user_id, MonthOf(clock)>>) =>
                     counter'[k] = counter[k] + 1]_vars

(* --------------------------- claims: leases --------------------------- *)
(* C14: a job is in the in-flight list exactly when its lease key         *)
(* job:{id}:timeout exists, except while a claim, complete or fail call   *)
(* on that job is between its first and its last command.                 *)
C14_LeaseCoupled ==
    \A j \in JobIds :
        (\A w \in Workers : ~Handling(w, j)) =>
            (InList(processing, j) <=> timeout[j] # 0)

(* job j is in-flight, its lease has expired and the worker that claimed  *)
(* it is dead                                                             *)
Orphaned(j) ==
    /\ InList(processing, j)
    /\ timeout[j] = 0
    /\ \E w \in Workers : wpc[w] = "dead" /\ wjob[w] = j
    /\ \A w \in Workers : wjob[w] = j => wpc[w] = "dead"

(* C15: a job whose worker died after claiming it and whose lease has     *)
(* expired does not stay in-flight forever: it eventually is back in      *)
(* pending for another worker, or is marked failed.                       *)
C15_TimeoutRecovery ==
    \A j \in JobIds :
        Orphaned(j) ~> (j \in zmembers(pending) \/ StatusOf(j) = "failed")

(* ---------------------- claims: fail and cancel ----------------------- *)
(* C16: a fail_job call for a job that has failed at most once before     *)
(* (so its attempt is below MAX_ATTEMPTS = 3; the worker passes every     *)
(* exception of the generator on as retryable) does not mark the job      *)
(* failed nor touch the failed ring; when it                              *)
(* returns, the job is queued and back in pending under the score of its  *)
(* priority and created_at, with started_at and worker_id cleared.        *)
C16_RetryOnFail ==
    [][\A w \in Workers :
          (wpc[w] \in FailSteps /\ Steps(w) /\ Count(failed, wjob[w]) < 2) =>
              LET j == wjob[w] IN
              /\ failed' = failed
              /\ StatusOf(j)' # "failed"
              /\ wpc'[w] = "idle" =>
                     /\ StatusOf(j)' = "queued"
                     /\ job'[j].started_at = EmptyStr
                     /\ job'[j].worker_id = StrNone
                     /\ \E e \in pending' :
                            /\ e.id = j
                            /\ e.score = Score(job'[j].priority,
                                               job'[j].created_at)]_vars

(* a cancel request for job j is answered                                 *)
CancelStep(j) == j \in creq' /\ j \notin creq

(* C17: a cancel request for a queued job takes it out of pending, which  *)
(* is then one member smaller (as before the submit), and leaves it with  *)
(* status cancelled.                                                      *)
C17_CancelQueued ==
    [][\A j \in JobIds :
          (CancelStep(j) /\ StatusOf(j) = "queued"
              /\ j \in zmembers(pending)) =>
                 /\ j \notin zmembers(pending')
                 /\ zcard(pending') = zcard(pending) - 1
                 /\ StatusOf(j)' = "cancelled"]_vars

(* ------------------------ claims: the indexes ------------------------- *)
(* C18: every member of the pending sorted set has a stored job hash.     *)
C18_HashBeforePending ==
    \A j \in zmembers(pending) : job[j].exists

(* C20: a job whose stored status is completed, failed or cancelled is    *)
(* neither in the pending sorted set nor in the in-flight list.           *)
C20_TerminalNotActive ==
    \A j \in JobIds :
        StatusOf(j) \in Terminal =>
            j \notin zmembers(pending) /\ ~InList(processing, j)

(* --------------------------- claims: reads ---------------------------- *)
ReadPcs == {"gs_zrank", "st_llen", "st_completed", "st_failed", "st_wait"}
(* API handler c takes a step of get_job_status or get_queue_stats        *)
ReadStep(c) ==
    \/ cpc[c] \in ReadPcs /\ cpc'[c] # cpc[c]
    \/ cpc[c] = "idle" /\ cpc'[c] \in {"gs_zrank", "st_llen"}
    \/ /\ cpc[c] = "idle" /\ cpc'[c] = "idle"
       /\ cres'[c] # cres[c]
       /\ cres'[c].code # 400
       /\ creq' = creq

(* C19: no step of get_job_status or get_queue_stats changes the pending  *)
(* set, the in-flight list, the terminal rings, a job hash or its TTL, a  *)
(* lease or a monthly counter.                                            *)
C19_PureReads ==
    [][\A c \in Clients :
          ReadStep(c) =>
              UNCHANGED <<pending, processing, completed, failed, job,
                          jobTtl, timeout, counter, counterTtl>>]_vars

(* one handler has returned the view of a queued job at position 1 and    *)
(* another the statistics, read while a job was in-flight                 *)
C19_Witness ==
    \E c, e \in Clients :
        /\ cres[c].code = 200
        /\ "queue_position" \in DOMAIN cres[c]
        /\ cres[c].queue_position = 1
        /\ cres[e].code = 200
        /\ "completed_today" \in DOMAIN cres[e]
        /\ cres[e].processing = 1


(* API handler c answers a request that names a tier without a priority   *)
UnknownTierStep(c) ==
    /\ cpc[c] = "idle" /\ cpc'[c] = "idle"
    /\ cres'[c] # cres[c]
    /\ "detail" \in DOMAIN cres'[c]
(* API handler c returns from submit_job with the job admitted            *)
AcceptStep(c) == cpc[c] = "sj_zrank" /\ cpc'[c] = "idle"

StatusAnswered(c) ==
    /\ cpc[c] = "idle" /\ cpc'[c] = "idle"
    /\ cres'[c] # cres[c]
    /\ creq' = creq
    /\ "job_id" \in DOMAIN cres'[c]
(* API handler c answers a status request for a job it read as queued     *)
QueuedAnswered(c) == cpc[c] = "gs_zrank" /\ cpc'[c] = "idle"
(* r is a status view: an answer 200 that names the job and its status    *)
IsView(r) == r.code = 200 /\ {"job_id", "status", "created_at"} \subseteq DOMAIN r

(* C22: get_job_status answers 404, with no view, exactly when the job id *)
(* has no stored hash at its hgetall, and answers with a view of the job  *)
(* whenever the hash is stored.                                           *)
C22_NotFoundOrView ==
    [][\A c \in Clients :
          /\ StatusAnswered(c) =>
                LET j == cres'[c].job_id
                IN  IF job[j].exists
                    THEN IsView(cres'[c])
                    ELSE cres'[c] = [code |-> 404, job_id |-> j]
          /\ (cpc[c] = "idle" /\ cpc'[c] = "gs_zrank") =>
                job[cjob'[c].job_id].exists
          /\ QueuedAnswered(c) =>
                IsView(cres'[c]) /\ cres'[c].job_id = cjob[c].job_id]_vars

(* one handler was answered 404 for an id that was never stored while the *)
(* other was answered with the view of the stored job                     *)
C22_Witness ==
    /\ job[1].exists /\ ~job[2].exists
    /\ cres[1] = [code |-> 404, job_id |-> 2]
    /\ IsView(cres[2]) /\ cres[2].job_id = 1

(* the fields a view adds to job_id, status and created_at, by status     *)
(* (result_url is the result handle)                                      *)
FieldsOf(st) ==
    CASE st = "queued" ->
            {"queue_position", "estimated_start", "estimated_wait_minutes"}
      [] st = "processing" -> {"started_at", "elapsed_seconds", "worker_id"}
      [] st = "completed" -> {"completed_at", "result_url", "duration_seconds"}
      [] st = "failed" -> {"completed_at", "error"}
      [] OTHER -> {}
(* API handler c returns from get_job_status without a 404                *)
ViewReturned(c) ==
    \/ StatusAnswered(c) /\ cres'[c].code # 404
    \/ QueuedAnswered(c)

C24_PriorityByTier ==
    [][\A j \in JobIds :
          job'[j].exists =>
              /\ job'[j].priority =
                     (CASE job'[j].tier = "enterprise" -> 0
                        [] job'[j].tier = "pro" -> 1
                        [] job'[j].tier = "indie" -> 2
                        [] job'[j].tier = "free" -> 3)
              /\ job[j].exists => job'[j].priority = job[j].priority]_vars

(* a free-tier job has been claimed and completed, its hash rewritten by  *)
(* the worker, and a pro-tier job is stored next to it                    *)
C24_Witness ==
    /\ job[1].exists /\ job[1].tier = "free" /\ job[1].status = "completed"
    /\ job[1].priority = 3
    /\ job[2].exists /\ job[2].tier = "pro" /\ job[2].priority = 1

(* C25: in every stored job hash, started_at, when set, is not before     *)
(* created_at, and completed_at, when both are set, is not before         *)
(* started_at.                                                            *)
C25_TimeOrder ==
    \A j \in JobIds :
        job[j].exists =>
            /\ job[j].started_at # EmptyStr =>
                   job[j].started_at >= job[j].created_at
            /\ (job[j].started_at # EmptyStr /\ job[j].completed_at # EmptyStr)
                   => job[j].completed_at >= job[j].started_at

(* C26: the worker_id stored with a job names a worker while the job's    *)
(* status is processing and is empty in every other status (None, or the  *)
(* text "None" the serializer writes for it, counts as empty).            *)
C26_WorkerIdScope ==
    \A j \in JobIds :
        job[j].exists =>
            IF job[j].status = "processing"
            THEN \E w \in Workers : job[j].worker_id = WorkerId(w)
            ELSE job[j].worker_id \in {PyNone, StrNone}

(* C27: in every stored job hash, error_message is populated only when    *)
(* the status is failed and result_url only when the status is completed  *)
(* (None, or the text "None" the serializer writes for it, counts as not  *)
(* populated).                                                            *)
C27_OutcomeFields ==
    \A j \in JobIds :
        job[j].exists =>
            /\ job[j].error_message \notin {PyNone, StrNone} =>
                   job[j].status = "failed"
            /\ job[j].result_url \notin {PyNone, StrNone} =>
                   job[j].status = "completed"

(* C28: whenever get_job_status or the answer to a submission reports a   *)
(* job as queued, the queue_position it reports is at least 1 and is the  *)
(* job's rank in the pending sorted set plus one, also when a worker's    *)
(* claim runs between the commands of the read.                           *)
C28_QueuePosition ==
    [][\A c \in Clients :
          (QueuedAnswered(c) \/ AcceptStep(c)) =>
              /\ cres'[c].status = "queued"
              /\ cres'[c].queue_position >= 1
              /\ cres'[c].queue_position =
                     zrank(pending, cres'[c].job_id) + 1]_vars

(* API handler c adds its job to the pending sorted set                   *)
EnqueueStep(c) == cpc[c] = "sj_zadd" /\ cpc'[c] = "sj_hset"
(* the score of member id of sorted set z                                 *)
ScoreIn(z, id) == (CHOOSE e \in z : e.id = id).score

(* C29: the score under which submit_job adds a job to pending is the     *)
(* job's priority times 10^6 plus the job's created_at, so that jobs of   *)
(* one priority are ordered by created_at.                                *)
C29_ScoreFromCreatedAt ==
    [][\A c \in Clients :
          EnqueueStep(c) =>
              ScoreIn(pending', cjob[c].job_id) =
                  cjob[c].priority * 1000000 + cjob[c].created_at]_vars

(* C29, as the code has it: the score is the job's priority times 10^6    *)
(* plus the time of the zadd itself, which is not before the job's        *)
(* created_at.                                                            *)
C29_ScoreFromEnqueueTime ==
    [][\A c \in Clients :
          EnqueueStep(c) =>
              /\ ScoreIn(pending', cjob[c].job_id) =
                     cjob[c].priority * 1000000 + clock
              /\ cjob[c].created_at <= clock]_vars

(* a job created at second 0 is in pending under the score of second 1,   *)
(* the time of its zadd                                                   *)
C29_Witness ==
    \E j \in JobIds :
        /\ job[j].exists /\ job[j].created_at = 0
        /\ \E e \in pending :
               e.id = j /\ e.score = job[j].priority * 1000000 + 1

(* C30: the estimated_start reported for a queued job at position p is    *)
(* the time of the estimate plus p * 600 s / 3, 600 s being the seeded    *)
(* job duration and 3 the number of concurrent jobs.                      *)
C30_EstimateShared ==
    [][\A c \in Clients :
          (QueuedAnswered(c) \/ AcceptStep(c)) =>
              cres'[c].estimated_start =
                  clock + (cres'[c].queue_position * 600) \div 3]_vars

(* C30, as the code has it: the estimated_start reported for a queued job *)
(* at position p is the time of the estimate plus p * 600 s, not divided  *)
(* by the number of concurrent jobs.                                      *)
C30_EstimatePerPosition ==
    [][\A c \in Clients :
          (QueuedAnswered(c) \/ AcceptStep(c)) =>
              cres'[c].estimated_start =
                  clock + cres'[c].queue_position * 600]_vars

(* a status read at second 1 has reported position 1 and an estimated     *)
(* start at second 601                                                    *)
C30_Witness ==
    /\ cres[2].code = 200 /\ cres[2].status = "queued"
    /\ cres[2].queue_position = 1
    /\ cres[2].estimated_start = 601

(* API handler c returns the queue statistics                             *)
StatsReturned(c) == cpc[c] = "st_wait" /\ cpc'[c] = "idle"

(* C31: for every pending count, the estimated_wait_minutes of the queue  *)
(* statistics is the quotient pending / 3 times 600 / 60: three times the *)
(* estimate is ten times the pending count.                               *)
C31_WaitProportional ==
    [][\A c \in Clients :
          StatsReturned(c) =>
              cres'[c].estimated_wait_minutes * 3 * 60 =
                  zcard(pending) * 600]_vars

(* C31, as the code has it: the pending count is first divided by 3 and   *)
(* rounded down to whole batches, and each whole batch counts 10 minutes. *)
C31_WaitPerBatch ==
    [][\A c \in Clients :
          StatsReturned(c) =>
              \E batches \in 0..zcard(pending) :
                  /\ 3 * batches <= zcard(pending)
                  /\ zcard(pending) < 3 * (batches + 1)
                  /\ cres'[c].estimated_wait_minutes = 10 * batches]_vars

(* the statistics were returned for seven pending jobs: two whole batches *)
C31_Witness ==
    /\ zcard(pending) = 7
    /\ cres[1].code = 200
    /\ "estimated_wait_minutes" \in DOMAIN cres[1]
    /\ cres[1].estimated_wait_minutes = 20

(* the jobs that reached terminal status st on the UTC day of time now    *)
TerminalOn(st, now) ==
    {j \in JobIds : /\ job[j].exists
                    /\ job[j].status = st
                    /\ job[j].completed_at \div 86400 = now \div 86400}

(* C32: the completed_today and failed_today of the queue statistics     *)
(* count the jobs that completed, respectively failed, on the current UTC *)
(* day: every job of today that is in the terminal ring is counted and a  *)
(* job that reached its terminal status on an earlier day is not.         *)
C32_TodayCounts ==
    [][\A c \in Clients :
          /\ (cpc[c] = "st_completed" /\ cpc'[c] = "st_failed") =>
                 LET today == TerminalOn("completed", clock)
                 IN  /\ cres'[c].completed_today <= Cardinality(today)
                     /\ cres'[c].completed_today >=
                            Cardinality({j \in today : InList(completed, j)})
          /\ (cpc[c] = "st_failed" /\ cpc'[c] = "st_wait") =>
                 LET today == TerminalOn("failed", clock)
                 IN  /\ cres'[c].failed_today <= Cardinality(today)
                     /\ cres'[c].failed_today >=
                            Cardinality({j \in today : InList(failed, j)})]_vars

(* C33: for a claimed job the worker loop calls fail_job only when the    *)
(* generator raised; an error inside complete_job, after the hash or the  *)
(* completed ring was written, does not make the worker mark the job      *)
(* failed over its completed status or push it to the failed ring as      *)
(* well.                                                                  *)
C33_OneOutcome ==
    [][\A w \in Workers :
          /\ (wpc[w] # "fa_lrem" /\ wpc'[w] = "fa_lrem") => wpc[w] = "working"
          /\ (wpc[w] = "fa_hset" /\ wpc'[w] = "fa_lpush") =>
                 job[wjob[w]].status # "completed"
          /\ (wpc[w] = "fa_lpush" /\ wpc'[w] = "idle") =>
                 ~InList(completed, wjob[w])]_vars

(* C34: under every interleaving of the workers' get_next_job calls the   *)
(* in-flight list never holds more than 3 entries.                        *)
C34_InFlightBound == Len(processing) <= 3

(* C35: under every interleaving of one user's concurrent submit calls,   *)
(* the free-tier submissions admitted for the user within one month never *)
(* exceed the monthly limit of 1.                                         *)
C35_QuotaUnderRace ==
    \A k \in CounterKeys :
        Cardinality({j \in JobIds : /\ job[j].exists
                                    /\ job[j].tier = "free"
                                    /\ job[j].user_id = k[1]
                                    /\ MonthOf(job[j].created_at) = k[2]})
            <= 1

(* a step of API handler c's submit up to and including its rejection     *)
BeforeAdmission(c) ==
    \/ cpc[c] = "idle" /\ cpc'[c] = "sj_llen"
    \/ SizeStep(c)
    \/ QuotaStep(c)
    \/ UnknownTierStep(c)

(* C36: a submit that is rejected, at the size check, at the quota check  *)
(* or for an unknown tier, leaves the store as it was: none of its steps  *)
(* writes, so that at the rejection the job is not in pending, has no     *)
(* hash and the user's counters are the ones the submit found.            *)
C36_RejectLeavesStore ==
    [][\A c \in Clients :
          /\ BeforeAdmission(c) =>
                 UNCHANGED <<pending, processing, completed, failed, job,
                             jobTtl, timeout, counter, counterTtl>>
          /\ ((SizeStep(c) \/ QuotaStep(c)) /\ Rejected(c)) =>
                 /\ cjob[c].job_id \notin zmembers(pending')
                 /\ ~job'[cjob[c].job_id].exists]_vars

(* the second submission of the month was refused at the quota check and  *)
(* left no trace: its id is neither pending nor stored and the counter    *)
(* still counts the first admission only                                  *)
C36_Witness ==
    /\ cpc[1] = "idle" /\ allocated = 2
    /\ cres[1].code = 400
    /\ cres[1].detail = "Monthly project limit reached"
    /\ 2 \notin zmembers(pending) /\ ~job[2].exists
    /\ counter[<<"u1", 0>>] = 1

(* C37: under fair scheduling, with no worker crash, a generator that     *)
(* always returns or raises and finitely many submissions, every job      *)
(* whose hash was stored eventually has status completed or failed, and   *)
(* the in-flight list is eventually empty for good.                       *)
C37_EventualOutcome ==
    /\ \A j \in JobIds :
           job[j].exists ~> (StatusOf(j) \in {"completed", "failed"})
    /\ <>[](processing = <<>>)

(* C38: a get_next_job that fails after its lpush does not leave the job  *)
(* in the in-flight list: whenever no worker is inside get_next_job,      *)
(* every entry of the in-flight list has a hash with status processing    *)
(* whose worker_id names a worker that was returned the job.              *)
C38_NoLeakedInFlight ==
    (\A w \in Workers : wpc[w] \notin ClaimSteps) =>
        \A i \in 1..Len(processing) :
            LET j == processing[i]
            IN  /\ job[j].exists
                /\ job[j].status = "processing"
                /\ \E w \in Workers :
                       /\ job[j].worker_id = WorkerId(w)
                       /\ wjob[w] = j
                       /\ wpc[w] \in {"working", "co_lrem", "fa_lrem"}

(* C39: deserializing a serialized job yields the job again in every      *)
(* persisted attribute: the job read back from the hash that an hset of   *)
(* submit_job, get_next_job, complete_job or fail_job has just written is *)
(* the job that was serialized, unset optional fields being unset again.  *)
C39_RoundTrip ==
    [][/\ \A c \in Clients :
             (cpc[c] = "sj_hset" /\ cpc'[c] = "sj_incr") =>
                 _deserialize_job(cjob[c].job_id, job'[cjob[c].job_id])
                     = cjob[c]
       /\ \A w \in Workers :
             (wpc[w] \in {"gn_hset", "co_hset", "fa_hset"}
                  /\ wpc'[w] # wpc[w]) =>
                 _deserialize_job(wjob[w], job'[wjob[w]]) = wobj[w]]_vars
=========================================================================
